---- MODULE Spec2Model ----
(***************************************************************************)
(* A model of the unsegen_pager crate (src/src/lib.rs): the Pager widget   *)
(* (content: Option<PagerContent>, current_line: LineIndex), its           *)
(* navigation operations, PagerContent::view and PagerWidget::draw.        *)
(*                                                                         *)
(* Indices are zero-based as in the source; TLA+ sequences are one-based,  *)
(* so the line with LineIndex i of a storage s is s[i + 1].                *)
(* LineIndex wraps a usize; every index of the model is far below 2^64,    *)
(* so `+ 1` never overflows here.                                          *)
(***************************************************************************)
EXTENDS Integers, Sequences, FiniteSets, TLC

VARIABLES
    content,        \* Pager.content: Option<PagerContent>, <<>> or <<c>>
    current_line,   \* Pager.current_line: LineIndex
    last,           \* the last call made on the pager and what it returned
    prev_op         \* the name of the call made before the last one

vars == <<content, current_line, last, prev_op>>

-----------------------------------------------------------------------------
(* Bounds of the model *)

\* longest storage (number of lines) that load is given
MaxLen == 2
\* longest line content, in bytes
MaxLineLen == 1
\* largest window height draw is given
MaxHeight == 2
\* largest window width draw is given
MaxWidth == 2

\* draw is also given the heights 20 .. 20 + MaxTall, above which the
\* height decides how many lines are looked at
MaxTall == 1
\* the length of a storage far longer than any window of lines
ExampleLen == 1000

\* lib.rs:243, `let min_highlight_context = 40;`
min_highlight_context == 40

-----------------------------------------------------------------------------
(* Values *)

Max(a, b) == IF a >= b THEN a ELSE b
Min(a, b) == IF a <= b THEN a ELSE b

\* Option<T>
None == <<>>
Some(x) == <<x>>
IsSome(o) == o # <<>>
Unwrap(o) == o[1]

\* Result<T, E>; load and clear_content return ()
Ok == <<"Ok">>
Err(e) == <<"Err", e>>
Unit == <<"()">>
IsOk(r) == r[1] = "Ok"
IsErr(r) == r[1] = "Err"

\* enum PagerError
NoLineWithIndex(line) == <<"NoLineWithIndex", line>>
NoLineWithPredicate == <<"NoLineWithPredicate">>
NoContent == <<"NoContent">>

\* A line (impl PagerLine for String) is its content, a sequence of bytes.
Bytes == {"a"}
get_content(line) == line
Lines == UNION {[1..n -> Bytes] : n \in 0..MaxLineLen}

\* The storages PagerContent::from_lines is given.
Storages == UNION {[1..n -> Lines] : n \in 0..MaxLen}

\* unsegen's BoolModifyMode
BoolModifyModes == {"Yes", "No", "Toggle", "LeaveUnchanged"}

\* BoolModifyMode::on_top_of: first `other`, then `self`
bool_on_top_of(self, other) ==
    CASE self = "LeaveUnchanged" -> other
      [] self \in {"Yes", "No"} -> self
      [] self = "Toggle" ->
            CASE other = "Yes" -> "No"
              [] other = "No" -> "Yes"
              [] other = "Toggle" -> "LeaveUnchanged"
              [] other = "LeaveUnchanged" -> "Toggle"

\* From<bool> for BoolModifyMode, what `.bold(true)` sets
bool_mode(b) == IF b THEN "Yes" ELSE "No"

\* StyleModifier::new(): no colour set, every text format left unchanged
StyleModifier_new ==
    [fg_color |-> None, bg_color |-> None, bold |-> "LeaveUnchanged",
     italic |-> "LeaveUnchanged", underline |-> "LeaveUnchanged",
     invert |-> "LeaveUnchanged"]

\* StyleModifier::on_top_of: applying the result is applying `other` and
\* then `self`, so what `self` sets wins.
on_top_of(self, other) ==
    [fg_color |-> IF IsSome(self.fg_color) THEN self.fg_color ELSE other.fg_color,
     bg_color |-> IF IsSome(self.bg_color) THEN self.bg_color ELSE other.bg_color,
     bold |-> bool_on_top_of(self.bold, other.bold),
     italic |-> bool_on_top_of(self.italic, other.italic),
     underline |-> bool_on_top_of(self.underline, other.underline),
     invert |-> bool_on_top_of(self.invert, other.invert)]

\* highlighting.rs:106-124, to_unsegen_color, to_unsegen_text_format and
\* to_unsegen_style_modifier: a syntect Style (foreground, background, a set
\* of font styles) sets both colours and bold, italic and underline, each
\* to yes or no.
to_unsegen_style_modifier(style) ==
    [fg_color |-> Some(style.foreground), bg_color |-> Some(style.background),
     bold |-> bool_mode("BOLD" \in style.font_style),
     italic |-> bool_mode("ITALIC" \in style.font_style),
     underline |-> bool_mode("UNDERLINE" \in style.font_style),
     invert |-> "LeaveUnchanged"]

\* Two styles of a syntect theme: plain text and a bold keyword.
PlainStyle == [foreground |-> "white", background |-> "black", font_style |-> {}]
KeywordStyle == [foreground |-> "red", background |-> "black", font_style |-> {"BOLD"}]

\* syntect's HighlightIterator: the (style, fragment) pairs of a line.  Here
\* the first byte of a line is plain text and the rest of it a keyword; an
\* empty line has no fragment.
fragments(line_content) ==
    IF Len(line_content) = 0 THEN <<>>
    ELSE IF Len(line_content) = 1 THEN <<<<PlainStyle, line_content>>>>
    ELSE <<<<PlainStyle, SubSeq(line_content, 1, 1)>>,
           <<KeywordStyle, SubSeq(line_content, 2, Len(line_content))>>>>

\* highlighting.rs:86-98, the changes of one line: each fragment's style at
\* the position the fragment starts at
RECURSIVE this_line_changes(_, _)
this_line_changes(frags, current_pos) ==
    IF frags = <<>> THEN <<>>
    ELSE <<<<current_pos, to_unsegen_style_modifier(Head(frags)[1])>>>>
         \o this_line_changes(Tail(frags), current_pos + Len(Head(frags)[2]))

\* HighlightInfo::none
HighlightInfo_none == [style_changes |-> <<>>, default_style |-> StyleModifier_new]

\* SyntectHighlighter::highlight
syntect_highlight(storage) ==
    [style_changes |-> [l \in 1..Len(storage) |->
                           this_line_changes(fragments(get_content(storage[l])), 0)],
     default_style |-> to_unsegen_style_modifier(PlainStyle)]

\* Another implementation of the Highlighter trait: it colours every line
\* from its second byte on and sets nothing else.
CommentColour ==
    [fg_color |-> Some("green"), bg_color |-> None, bold |-> "LeaveUnchanged",
     italic |-> "LeaveUnchanged", underline |-> "LeaveUnchanged",
     invert |-> "LeaveUnchanged"]
custom_highlight(storage) ==
    [style_changes |-> [l \in 1..Len(storage) |->
                           IF Len(get_content(storage[l])) >= 1
                           THEN <<<<1, CommentColour>>>> ELSE <<>>],
     default_style |-> StyleModifier_new]

\* The highlighters a content is given: none, syntect's, the other one.
Highlighters == {"none", "syntect", "custom"}

\* PagerContent::from_lines: no highlighter, NoDecorator.
from_lines(storage) == [storage |-> storage, highlight_info |-> HighlightInfo_none]

\* PagerContent::with_highlighter
with_highlighter(c, highlighter) ==
    [c EXCEPT !.highlight_info =
        CASE highlighter = "none" -> c.highlight_info
          [] highlighter = "syntect" -> syntect_highlight(c.storage)
          [] highlighter = "custom" -> custom_highlight(c.storage)]

\* HighlightInfo::get_info_for_line
get_info_for_line(highlight_info, l) ==
    IF l < Len(highlight_info.style_changes)
    THEN highlight_info.style_changes[l + 1]
    ELSE <<>>

\* The indices go_to_line is called with: every valid one and some beyond.
Indices == 0..(MaxLen + 1)

\* std::ops::Bound, the two ends of a RangeBounds<LineIndex>
Unbounded == <<"Unbounded">>
Included(i) == <<"Included", i>>
Excluded(i) == <<"Excluded", i>>
Bounds == {Unbounded} \cup {Included(i) : i \in Indices} \cup {Excluded(i) : i \in Indices}

\* The predicates go_to_line_if is called with, Fn(LineIndex, &L) -> bool:
\* "the content is v bytes long" and "the index is at least v".
Predicates ==
    {<<"content_len_is", v>> : v \in 0..MaxLineLen} \cup {<<"index_at_least", v>> : v \in 0..MaxLen}
predicate_holds(p, index, line) ==
    IF p[1] = "content_len_is" THEN Len(get_content(line)) = p[2] ELSE index >= p[2]

-----------------------------------------------------------------------------
(* PagerContent *)

\* A call that panics returns nothing.
Panic == <<"panic">>

\* lib.rs:481-486, the start bound of the range, always inclusive
view_start(start_bound) ==
    CASE start_bound[1] = "Unbounded" -> 0
      [] start_bound[1] = "Included" -> start_bound[2]
      [] start_bound[1] = "Excluded" -> start_bound[2] + 1

\* lib.rs:487-492, the end bound of the range, always exclusive
view_end(storage, end_bound) ==
    CASE end_bound[1] = "Unbounded" -> Len(storage)
      [] end_bound[1] = "Included" -> end_bound[2] + 1
      [] end_bound[1] = "Excluded" -> end_bound[2]

\* PagerContent::view.  `self.storage[urange]` is evaluated when view is
\* called and panics when ustart > uend (uend <= len always holds); the
\* iterator zips the indices ustart..uend with the lines of that slice.
view(storage, start_bound, end_bound) ==
    LET ustart == view_start(start_bound)
        uend == Min(Len(storage), view_end(storage, end_bound))
    IN  IF ustart > uend
        THEN [panic |-> TRUE, items |-> <<>>]
        ELSE LET urange == [k \in 1..(uend - ustart) |-> ustart + k - 1]
                 slice == SubSeq(storage, ustart + 1, uend)
             IN  [panic |-> FALSE,
                  items |-> [k \in 1..Len(urange) |-> <<urange[k], slice[k]>>]]

\* Iterator::find over the items of a view: the first item, front to back,
\* that satisfies the predicate.
RECURSIVE find(_, _)
find(items, p) ==
    IF items = <<>> THEN None
    ELSE IF predicate_holds(p, Head(items)[1], Head(items)[2]) THEN Some(Head(items))
    ELSE find(Tail(items), p)

-----------------------------------------------------------------------------
(* PagerWidget::draw *)

\* unsegen's Cursor in WrappingMode::Wrap, hard wraps at the window's width:
\* the number of additional rows a text takes beyond its first.
num_expected_wraps(text, width) ==
    Max(1, (Len(text) + width - 1) \div width) - 1

\* lib.rs:276-287, the rows a sequence of view items takes when wrapped
RECURSIVE num_line_wraps(_, _)
num_line_wraps(items, width) ==
    IF items = <<>> THEN 0
    ELSE (num_expected_wraps(get_content(Head(items)[2]), width) + 1)
         + num_line_wraps(Tail(items), width)

\* lib.rs:303-309, the style of a line before its highlighting: invert
\* and bold on the current line, nothing elsewhere
base_style(line_index, cur) ==
    IF line_index = cur
    THEN [StyleModifier_new EXCEPT !.invert = "Toggle", !.bold = bool_mode(TRUE)]
    ELSE StyleModifier_new

\* the writes of one line with each change's style set before the text up
\* to the change is written, not after
RECURSIVE write_changes_style_first(_, _, _, _, _, _)
write_changes_style_first(changes, last_change_pos, style, line_index, line_content, base) ==
    IF changes = <<>>
    THEN <<[line_index |-> line_index, from |-> last_change_pos,
            to |-> Len(line_content),
            text |-> SubSeq(line_content, last_change_pos + 1, Len(line_content)),
            style |-> style]>>
    ELSE LET change_pos == Head(changes)[1]
         IN  <<[line_index |-> line_index, from |-> last_change_pos, to |-> change_pos,
                text |-> SubSeq(line_content, last_change_pos + 1, change_pos),
                style |-> on_top_of(Head(changes)[2], base)]>>
             \o write_changes_style_first(Tail(changes), change_pos,
                                          on_top_of(Head(changes)[2], base),
                                          line_index, line_content, base)

\* lib.rs:312-319, the writes of one line, `style` being the cursor's style
\* modifier: before each change the text up to it is written, then the
\* cursor's style is set; the rest of the line is written after the last
\* change.  (The changes here are in order and within the line, so that no
\* slice of line_content is out of range.)
RECURSIVE write_changes(_, _, _, _, _, _)
write_changes(changes, last_change_pos, style, line_index, line_content, base) ==
    IF changes = <<>>
    THEN <<[line_index |-> line_index, from |-> last_change_pos,
            to |-> Len(line_content),
            text |-> SubSeq(line_content, last_change_pos + 1, Len(line_content)),
            style |-> style]>>
    ELSE LET change_pos == Head(changes)[1]
         IN  <<[line_index |-> line_index, from |-> last_change_pos, to |-> change_pos,
                text |-> SubSeq(line_content, last_change_pos + 1, change_pos),
                style |-> style]>>
             \o write_changes(Tail(changes), change_pos,
                              on_top_of(Head(changes)[2], base),
                              line_index, line_content, base)

\* a row as the cursor reports it, not clipped to the window
row_not_clipped(y, height) == y

\* lib.rs:325-326, a row clipped to the window
clip_row(y, height) == Min(Max(y, 0), height)

\* The concatenation of a sequence of sequences.
RECURSIVE Flatten(_)
Flatten(seqs) == IF seqs = <<>> THEN <<>> ELSE Head(seqs) \o Flatten(Tail(seqs))

\* lib.rs:301-334, the row of the cursor at the start of each turn of the
\* loop of the render pass, the cursor being on row y before the first:
\* every line moves the cursor down by the rows it takes
\* (fill_and_wrap_line).
RECURSIVE line_start_rows(_, _, _)
line_start_rows(items, y, width) ==
    IF items = <<>> THEN <<>>
    ELSE <<y>> \o line_start_rows(Tail(items),
                                  y + num_expected_wraps(get_content(Head(items)[2]), width) + 1,
                                  width)

\* lib.rs:301-334, the cursor when the loop of the render pass reaches the
\* k-th line of the view: it is on the row the lines before have moved it
\* to, and the line just before has left its base_style as the cursor's
\* style modifier (lib.rs:321); for the first line the cursor is where
\* move_to put it, with StyleModifier::new().
cursor_before(items, start_rows, k, cur) ==
    [y |-> start_rows[k],
     style |-> IF k = 1 THEN StyleModifier_new ELSE base_style(items[k - 1][1], cur)]

\* lib.rs:302-332, one turn of the loop of the render pass: the writes of
\* the line, then set_style_modifier(base_style) and fill_and_wrap_line,
\* then the decorate call with the rows the line took, clipped to the window.
render_line(item, cursor, cur, height, width, highlight_info) ==
    LET line_index == item[1]
        line_content == get_content(item[2])
        base == base_style(line_index, cur)
        start_y == cursor.y
        line_writes == write_changes(get_info_for_line(highlight_info, line_index),
                                     0, cursor.style, line_index, line_content, base)
        end_y == start_y + num_expected_wraps(line_content, width) + 1
        range_start_y == clip_row(start_y, height)
        range_end_y == clip_row(end_y, height)
        decorate == [line_to_decorate_index |-> line_index,
                     active_line_index |-> cur,
                     rows |-> <<range_start_y, range_end_y>>]
    IN  [writes |-> line_writes,
         decorate |-> decorate,
         line |-> [line_index |-> line_index, start_y |-> start_y, end_y |-> end_y,
                   fill_style |-> base],
         trace |-> [k \in 1..Len(line_writes) |-> <<"write", line_writes[k]>>]
                   \o <<<<"fill_and_wrap_line", line_index>>, <<"decorate", decorate>>>>]

\* lib.rs:299-334, the render pass over the view of the candidate window,
\* the cursor moved to the row `start` before it.
render_pass(items, start, cur, height, width, highlight_info) ==
    LET start_rows == line_start_rows(items, start, width)
        turns == <<>> \o [k \in 1..Len(items) |->
                     render_line(items[k], cursor_before(items, start_rows, k, cur),
                                 cur, height, width, highlight_info)]
    IN  [writes |-> Flatten([k \in 1..Len(items) |-> turns[k].writes]),
         decorates |-> [k \in 1..Len(items) |-> turns[k].decorate],
         lines |-> [k \in 1..Len(items) |-> turns[k].line],
         trace |-> Flatten([k \in 1..Len(items) |-> turns[k].trace])]

NothingDrawn == [writes |-> <<>>, decorates |-> <<>>, lines |-> <<>>, trace |-> <<>>,
                 layout |-> <<>>]

\* the lines to load on either side without the minimum of 20
adjacent_lines_height_only(height) == height

\* lib.rs:243-244
num_adjacent_lines_to_load(height) == Max(height, min_highlight_context \div 2)

\* lib.rs:245-249, checked_sub(..).unwrap_or_else(|| LineIndex::new(0))
min_line(cur, adjacent) == IF cur >= adjacent THEN cur - adjacent ELSE 0

\* lib.rs:250
max_line(cur, adjacent) == cur + adjacent

\* the centered row rounded up instead of down
centered_rounding_up(height) == (height + 1) \div 2

\* lib.rs:289
centered_current_line_start_pos(height) == height \div 2

\* the row for the bottom alone, without the `max` with the centered row
best_pos_for_bottom_only(height, num_line_wraps_from_current_line) ==
    height - num_line_wraps_from_current_line

\* the centered row alone, without the `max` with the row for the bottom
best_pos_centered_only(height, num_line_wraps_from_current_line) ==
    centered_current_line_start_pos(height)

\* lib.rs:290-293
best_current_line_pos_for_bottom(height, num_line_wraps_from_current_line) ==
    Max(centered_current_line_start_pos(height),
        height - num_line_wraps_from_current_line)

\* the start row without the `min` with row 0
start_pos_not_pinned(height, until_current_line, from_current_line) ==
    best_current_line_pos_for_bottom(height, from_current_line) - until_current_line

\* lib.rs:294-297
required_start_pos(height, until_current_line, from_current_line) ==
    Min(0, best_current_line_pos_for_bottom(height, from_current_line) - until_current_line)

\* PagerWidget::draw on a window of the given height and width.  The
\* decorator's width demand is asked for first, over the view of the whole
\* candidate window; with the NoDecorator of from_lines it is 0, so the
\* content window is as wide as the window.  The cursor starts with
\* StyleModifier::new().  A view that panics ends the draw where it is
\* called: the first (lib.rs:255) before anything is done, the second and
\* third (lib.rs:278, 284) after the decorator was asked for its demand.
draw(c, cur, height, width) ==
    IF IsSome(c)
    THEN LET storage == Unwrap(c).storage
             adjacent == num_adjacent_lines_to_load(height)
             demand_view == view(storage, Included(min_line(cur, adjacent)),
                                 Excluded(max_line(cur, adjacent)))
             until_view == view(storage, Included(min_line(cur, adjacent)), Excluded(cur))
             from_view == view(storage, Included(cur), Excluded(max_line(cur, adjacent)))
             num_line_wraps_until_current_line == num_line_wraps(until_view.items, width)
             num_line_wraps_from_current_line == num_line_wraps(from_view.items, width)
             start == required_start_pos(height, num_line_wraps_until_current_line,
                                         num_line_wraps_from_current_line)
             pass == render_pass(demand_view.items, start, cur, height, width,
                                 Unwrap(c).highlight_info)
             demand_call == <<"horizontal_space_demand",
                              [k \in 1..Len(demand_view.items) |-> demand_view.items[k][1]]>>
         IN  IF demand_view.panic
             THEN [ret |-> Panic, out |-> NothingDrawn]
             ELSE IF until_view.panic \/ from_view.panic
             THEN [ret |-> Panic, out |-> [NothingDrawn EXCEPT !.trace = <<demand_call>>]]
             ELSE [ret |-> Unit,
                   out |-> [writes |-> pass.writes,
                            decorates |-> pass.decorates,
                            lines |-> pass.lines,
                            trace |-> <<demand_call>> \o pass.trace,
                            layout |-> [required_start_pos |-> start]]]
    ELSE [ret |-> Unit, out |-> NothingDrawn]

-----------------------------------------------------------------------------
(* Pager: pure transcriptions of the methods.  Each takes the fields it    *)
(* reads and returns the fields it writes together with its return value.  *)

\* line_exists with the comparison off by one: `<=` for `<`
line_exists_inclusive(c, line) ==
    IF IsSome(c) THEN line <= Len(Unwrap(c).storage) ELSE FALSE

\* Pager::line_exists
line_exists(c, line) ==
    IF IsSome(c) THEN line < Len(Unwrap(c).storage) ELSE FALSE

\* Pager::go_to_line
go_to_line(c, cur, line) ==
    IF line_exists(c, line)
    THEN [current_line |-> line, ret |-> Ok]
    ELSE [current_line |-> cur, ret |-> Err(NoLineWithIndex(line))]

\* go_to_line_if searching from the current line on: view(current_line..)
go_to_line_if_from_current(c, cur, predicate) ==
    LET v == view(Unwrap(c).storage, Included(cur), Unbounded)
        found == find(v.items, predicate)
    IN  IF ~IsSome(c) THEN [current_line |-> cur, ret |-> Err(NoContent)]
        ELSE IF v.panic THEN [current_line |-> cur, ret |-> Panic]
        ELSE IF IsSome(found) THEN go_to_line(c, cur, Unwrap(found)[1])
        ELSE [current_line |-> cur, ret |-> Err(NoLineWithPredicate)]

\* go_to_line_if that does not tell a missing content from a missing line:
\* `.ok_or(PagerError::NoContent)`
go_to_line_if_one_error(c, cur, predicate) ==
    LET found == IF IsSome(c)
                 THEN find(view(Unwrap(c).storage, Included(0), Unbounded).items, predicate)
                 ELSE None
    IN  IF IsSome(found) THEN go_to_line(c, cur, Unwrap(found)[1])
        ELSE [current_line |-> cur, ret |-> Err(NoContent)]

\* Pager::go_to_line_if
go_to_line_if(c, cur, predicate) ==
    LET v == view(Unwrap(c).storage, Included(0), Unbounded)
        found == find(v.items, predicate)
        line == IF IsSome(c)
                THEN IF IsSome(found) THEN <<"Ok", Unwrap(found)[1]>>
                     ELSE Err(NoLineWithPredicate)
                ELSE Err(NoContent)
    IN  IF IsSome(c) /\ v.panic THEN [current_line |-> cur, ret |-> Panic]
        ELSE IF IsOk(line) THEN go_to_line(c, cur, line[2])
        ELSE [current_line |-> cur, ret |-> line]

\* scroll_backwards that saturates at line 0 and reports success there
scroll_backwards_saturating(c, cur) ==
    [current_line |-> Max(cur - 1, 0), ret |-> Ok]

\* Scrollable::scroll_backwards
scroll_backwards(c, cur) ==
    IF cur > 0
    THEN [current_line |-> cur - 1, ret |-> Ok]
    ELSE [current_line |-> cur, ret |-> Err(<<>>)]

\* scroll_forwards that checks the current line, not the one it goes to
scroll_forwards_checks_current(c, cur) ==
    IF line_exists(c, cur)
    THEN [current_line |-> cur + 1, ret |-> Ok]
    ELSE [current_line |-> cur, ret |-> Err(<<>>)]

\* Scrollable::scroll_forwards: go_to_line(current + 1).map_err(|_| ())
scroll_forwards(c, cur) ==
    LET new_line == cur + 1
        r == go_to_line(c, cur, new_line)
    IN  [current_line |-> r.current_line,
         ret |-> IF IsOk(r.ret) THEN Ok ELSE Err(<<>>)]

\* scroll_to_beginning without the test for being on line 0 already
scroll_to_beginning_always_ok(c, cur) == [current_line |-> 0, ret |-> Ok]

\* Scrollable::scroll_to_beginning
scroll_to_beginning(c, cur) ==
    IF cur = 0
    THEN [current_line |-> cur, ret |-> Err(<<>>)]
    ELSE [current_line |-> 0, ret |-> Ok]

\* scroll_to_end without the test for being on the last line already
scroll_to_end_always_ok(c, cur) ==
    IF IsSome(c) /\ Len(Unwrap(c).storage) > 0
    THEN [current_line |-> Len(Unwrap(c).storage) - 1, ret |-> Ok]
    ELSE [current_line |-> cur, ret |-> Err(<<>>)]

\* Scrollable::scroll_to_end
scroll_to_end(c, cur) ==
    IF IsSome(c)
    THEN IF Len(Unwrap(c).storage) = 0
         THEN [current_line |-> cur, ret |-> Err(<<>>)]
         ELSE LET last_line == Len(Unwrap(c).storage) - 1
              IN  IF cur = last_line
                  THEN [current_line |-> cur, ret |-> Err(<<>>)]
                  ELSE [current_line |-> last_line, ret |-> Ok]
    ELSE [current_line |-> cur, ret |-> Err(<<>>)]

\* load without the re-validation of the current line
load_without_revalidation(cur, new_content) ==
    [content |-> Some(new_content), current_line |-> cur, ret |-> Unit]

\* load that always goes to the last line of the new content
load_always_to_end(cur, new_content) ==
    [content |-> Some(new_content),
     current_line |-> scroll_to_end(Some(new_content), cur).current_line,
     ret |-> Unit]

\* Pager::load: the content is replaced, then the current line is
\* re-validated; the result of scroll_to_end is dropped (`let _ =`).
load(cur, new_content) ==
    LET c == Some(new_content)
    IN  IF ~line_exists(c, cur)
        THEN [content |-> c, current_line |-> scroll_to_end(c, cur).current_line,
              ret |-> Unit]
        ELSE [content |-> c, current_line |-> cur, ret |-> Unit]

\* Pager::clear_content
clear_content(cur) == [content |-> None, current_line |-> cur, ret |-> Unit]

\* Pager::content_mut: self.content.as_mut(), the content itself if any
content_mut(c) == c

\* Pager::current_line_index
current_line_index == current_line

\* Pager::current_line: the line the pager is on, if there is content and
\* the storage has a line with that index (Vec::get)
Pager_current_line(c, cur) ==
    IF IsSome(c)
    THEN IF cur < Len(Unwrap(c).storage) THEN Some(Unwrap(c).storage[cur + 1]) ELSE None
    ELSE None

-----------------------------------------------------------------------------
(* The state machine *)

\* The record of a call: its name, its argument, current_line before it,
\* what it returned, and what it produced besides (the items of a view, the
\* writes and decorate calls of a draw).
Call(name, arg, ret, out) ==
    [name |-> name, arg |-> arg, before |-> current_line, ret |-> ret, out |-> out]

\* Pager::new
Init ==
    /\ content = None
    /\ current_line = 0
    /\ last = [name |-> "new", arg |-> <<>>, before |-> 0, ret |-> Unit, out |-> <<>>]
    /\ prev_op = "none"

Load(storage) ==
    LET r == load(current_line, from_lines(storage))
    IN  /\ content' = r.content
        /\ current_line' = r.current_line
        /\ last' = Call("load", storage, r.ret, <<>>)
        /\ prev_op' = last.name

ClearContent ==
    LET r == clear_content(current_line)
    IN  /\ content' = r.content
        /\ current_line' = r.current_line
        /\ last' = Call("clear_content", <<>>, r.ret, <<>>)
        /\ prev_op' = last.name

GoToLine(line) ==
    LET r == go_to_line(content, current_line, line)
    IN  /\ current_line' = r.current_line
        /\ last' = Call("go_to_line", line, r.ret, <<>>)
        /\ prev_op' = last.name
        /\ UNCHANGED content

GoToLineIf(predicate) ==
    LET r == go_to_line_if(content, current_line, predicate)
    IN  /\ current_line' = r.current_line
        /\ last' = Call("go_to_line_if", predicate, r.ret, <<>>)
        /\ prev_op' = last.name
        /\ UNCHANGED content

ScrollBackwards ==
    LET r == scroll_backwards(content, current_line)
    IN  /\ current_line' = r.current_line
        /\ last' = Call("scroll_backwards", <<>>, r.ret, <<>>)
        /\ prev_op' = last.name
        /\ UNCHANGED content

ScrollForwards ==
    LET r == scroll_forwards(content, current_line)
    IN  /\ current_line' = r.current_line
        /\ last' = Call("scroll_forwards", <<>>, r.ret, <<>>)
        /\ prev_op' = last.name
        /\ UNCHANGED content

ScrollToBeginning ==
    LET r == scroll_to_beginning(content, current_line)
    IN  /\ current_line' = r.current_line
        /\ last' = Call("scroll_to_beginning", <<>>, r.ret, <<>>)
        /\ prev_op' = last.name
        /\ UNCHANGED content

ScrollToEnd ==
    LET r == scroll_to_end(content, current_line)
    IN  /\ current_line' = r.current_line
        /\ last' = Call("scroll_to_end", <<>>, r.ret, <<>>)
        /\ prev_op' = last.name
        /\ UNCHANGED content

\* pager.as_widget().draw(window, hints) on a window of the given size.
\* draw takes &self: the pager is as it was, also when draw panics.  The
\* windows here are at least one column wide (space_demand, lib.rs:232-237).
Draw(height, width) ==
    LET r == draw(content, current_line, height, width)
    IN  /\ last' = Call("draw", <<height, width>>, r.ret, r.out)
        /\ prev_op' = last.name
        /\ UNCHANGED <<content, current_line>>

\* `*pager.content_mut().unwrap() = content` (or std::mem::swap through
\* it): content_mut hands out a mutable reference to the content when there
\* is one, through which the caller replaces it.  The pager takes no part
\* in it: current_line is not re-validated.
ContentMut(storage) ==
    /\ IsSome(content_mut(content))
    /\ content' = Some(from_lines(storage))
    /\ last' = Call("content_mut", storage, Unit, <<>>)
    /\ prev_op' = last.name
    /\ UNCHANGED current_line

\* The operations of the pager: load, clear_content, the navigation
\* operations and draw.
NextOps ==
    \/ \E storage \in Storages : Load(storage)
    \/ ClearContent
    \/ \E line \in Indices : GoToLine(line)
    \/ \E predicate \in Predicates : GoToLineIf(predicate)
    \/ ScrollBackwards
    \/ ScrollForwards
    \/ ScrollToBeginning
    \/ ScrollToEnd
    \/ \E height \in 0..MaxHeight, width \in 1..MaxWidth : Draw(height, width)

\* A pager used through its operations only.
SpecOps == Init /\ [][NextOps]_vars

\* The whole public interface of the pager: its operations and the
\* replacement of the content through content_mut.
Next ==
    \/ NextOps
    \/ \E storage \in Storages : ContentMut(storage)

Spec == Init /\ [][Next]_vars

-----------------------------------------------------------------------------
(* PagerContent::view as a function of its inputs: any content built by    *)
(* from_lines, any range.                                                  *)

InitView ==
    /\ content \in {Some(from_lines(storage)) : storage \in Storages}
    /\ current_line = 0
    /\ last = [name |-> "new", arg |-> <<>>, before |-> 0, ret |-> Unit, out |-> <<>>]
    /\ prev_op = "none"

\* pager.content().unwrap().view(range)
ViewCall(start_bound, end_bound) ==
    LET r == view(Unwrap(content).storage, start_bound, end_bound)
    IN  /\ IsSome(content)
        /\ last' = Call("view", <<start_bound, end_bound>>,
                        IF r.panic THEN Panic ELSE Unit, r.items)
        /\ prev_op' = last.name
        /\ UNCHANGED <<content, current_line>>

NextView == \E start_bound \in Bounds, end_bound \in Bounds : ViewCall(start_bound, end_bound)

SpecView == InitView /\ [][NextView]_vars

-----------------------------------------------------------------------------
(* PagerWidget::draw as a function of its inputs: a pager with a non-empty *)
(* content, with or without a highlighter, on any of its lines, drawn to   *)
(* windows of several sizes.  The storages are long enough for the window  *)
(* of lines draw looks at to end inside them, and have lines that wrap.    *)

LineOfLen(n) == [k \in 1..n |-> "a"]

\* the lengths of the lines of a storage, repeating with period 2
Patterns == [1..2 -> 0..(MaxLineLen + 1)]
PatternStorage(n, pattern) == [i \in 1..n |-> LineOfLen(pattern[((i - 1) % 2) + 1])]

\* longer than the widest window of lines: 2 * max(H, 20) for the tallest H
LongLen == 2 * (min_highlight_context \div 2 + MaxTall) + 3

\* the short storages, of every pattern
DrawStorages == {PatternStorage(n, pattern) : n \in 1..MaxLen, pattern \in Patterns}

\* the long storages: lines of one byte, and empty lines alternating with
\* the longest ones
LongPatterns == {[i \in 1..2 |-> 1], [i \in 1..2 |-> (i - 1) * (MaxLineLen + 1)]}
LongStorages == {PatternStorage(LongLen, pattern) : pattern \in LongPatterns}

\* the lines of a long storage the pager is on: the first, the last, and
\* those around which the window of lines starts after the first line or
\* ends at or before the last
LongCurrents ==
    {0, LongLen - 1}
        \cup ((min_highlight_context \div 2) .. (LongLen - min_highlight_context \div 2))

\* a storage of ExampleLen lines of one row each
ExampleStorage == [i \in 1..ExampleLen |-> LineOfLen(1)]

Heights == (0..MaxHeight) \cup {min_highlight_context \div 2 + d : d \in 0..MaxTall}

InitDraw ==
    /\ \/ \E storage \in DrawStorages, highlighter \in Highlighters :
              /\ content = Some(with_highlighter(from_lines(storage), highlighter))
              /\ current_line \in 0..(Len(storage) - 1)
       \/ \E storage \in LongStorages :
              /\ content = Some(from_lines(storage))
              /\ current_line \in LongCurrents
       \/ /\ content = Some(from_lines(ExampleStorage))
          /\ current_line \in {0, ExampleLen \div 2, ExampleLen - 1}
       \/ /\ content \in {None, Some(from_lines(<<>>))}
          /\ current_line = 0
    /\ last = [name |-> "new", arg |-> <<>>, before |-> 0, ret |-> Unit, out |-> <<>>]
    /\ prev_op = "none"

NextDraw == \E height \in Heights, width \in 1..MaxWidth : Draw(height, width)

SpecDraw == InitDraw /\ [][NextDraw]_vars

-----------------------------------------------------------------------------
(* Properties.  Below, `storage` is the storage of the loaded content and  *)
(* `last` the call that led to the state.                                  *)

HasContent == IsSome(content)
Storage == Unwrap(content).storage
StorageLen == IF HasContent THEN Len(Storage) ELSE 0

\* C1: in every state reachable from Pager::new(), if content is loaded and
\* its storage is not empty, current_line_index() is below its length.
C1_CurrentLineInBounds ==
    (HasContent /\ StorageLen >= 1) => current_line_index < StorageLen

\* A load of a one-line storage while the current line was 1 (beyond it).
C1_Witness ==
    /\ last.name = "load" /\ last.before = 1
    /\ HasContent /\ StorageLen = 1 /\ current_line_index = 0

\* C2: go_to_line(i) succeeds iff a storage is loaded and i < len; then the
\* current line is i; otherwise it fails with NoLineWithIndex(i) and the
\* current line is what it was.
C2_GoToLine ==
    last.name = "go_to_line" =>
        LET i == last.arg
            valid == HasContent /\ i < StorageLen
        IN  /\ IsOk(last.ret) <=> valid
            /\ valid => current_line_index = i
            /\ ~valid => /\ last.ret = Err(NoLineWithIndex(i))
                         /\ current_line_index = last.before

\* go_to_line(len) on a loaded, non-empty storage: the first index that fails.
C2_Witness ==
    /\ last.name = "go_to_line" /\ HasContent /\ StorageLen >= 1
    /\ last.arg = StorageLen /\ last.ret = Err(NoLineWithIndex(StorageLen))
    /\ current_line_index = last.before

\* C3: after load(content) with the previous current line >= the new length
\* N: if N >= 1 the current line is N - 1; if N = 0 the current line does not
\* keep its stale value (it is 0, as in a pager without content); load
\* returns () in both cases.
C3_LoadClamps ==
    (last.name = "load" /\ last.before >= StorageLen) =>
        /\ StorageLen >= 1 => current_line_index = StorageLen - 1
        /\ StorageLen = 0 => current_line_index = 0
        /\ last.ret = Unit

\* C4: view(range) never fails; it is empty when the range is empty or
\* inverted or starts at or beyond the length of the storage; it yields no
\* index outside [0, len).
C4_ViewNeverFails ==
    last.name = "view" =>
        LET a == view_start(last.arg[1])
            b == view_end(Storage, last.arg[2])
        IN  /\ last.ret # Panic
            /\ (a >= b \/ a >= StorageLen) => last.out = <<>>
            /\ \A k \in 1..Len(last.out) : last.out[k][1] \in 0..(StorageLen - 1)

\* The items, in ascending order, of the indices of [a, b) that are in [0, len).
ExpectedView(storage, a, b) ==
    LET lo == Max(a, 0)
        hi == Min(b, Len(storage))
    IN  [k \in 1..Max(hi - lo, 0) |-> <<lo + k - 1, storage[lo + k]>>]

\* C5: view(range) yields exactly the pairs (i, storage[i]) for i in
\* [start, end) and in [0, len), ascending, with start and end read off the
\* bounds (Included a: a, Excluded a: a + 1, Unbounded: 0; Excluded b: b,
\* Included b: b + 1, Unbounded: len); so view(a..=b) is view(a..b+1).
C5_ViewYieldsIntersection ==
    last.name = "view" =>
        LET start_bound == last.arg[1]
            end_bound == last.arg[2]
            a == CASE start_bound[1] = "Included" -> start_bound[2]
                   [] start_bound[1] = "Excluded" -> start_bound[2] + 1
                   [] OTHER -> 0
            b == CASE end_bound[1] = "Excluded" -> end_bound[2]
                   [] end_bound[1] = "Included" -> end_bound[2] + 1
                   [] OTHER -> StorageLen
        IN  /\ last.ret = Unit
            /\ last.out = ExpectedView(Storage, a, b)
            /\ end_bound[1] = "Included" =>
                   last.out = view(Storage, start_bound, Excluded(end_bound[2] + 1)).items

\* C6: in every reachable state draw completes without failing; with no
\* content or an empty storage it writes no text and makes no decorate call.
C6_DrawNeverFails ==
    last.name = "draw" =>
        /\ last.ret # Panic
        /\ (~HasContent \/ StorageLen = 0) =>
               (last.out.writes = <<>> /\ last.out.decorates = <<>>)

\* C7: scroll_backwards right after scroll_to_beginning, and scroll_forwards
\* right after scroll_to_end, fail and leave the current line as it was.
C7_EdgeThenStepFails ==
    /\ (prev_op = "scroll_to_beginning" /\ last.name = "scroll_backwards") =>
           (IsErr(last.ret) /\ current_line_index = last.before)
    /\ (prev_op = "scroll_to_end" /\ last.name = "scroll_forwards") =>
           (IsErr(last.ret) /\ current_line_index = last.before)

\* scroll_forwards right after scroll_to_end on a storage of two lines or more.
C7_Witness ==
    /\ prev_op = "scroll_to_end" /\ last.name = "scroll_forwards"
    /\ HasContent /\ StorageLen >= 2 /\ current_line_index = StorageLen - 1

\* The indices of the loaded storage whose line satisfies the predicate.
Matching(p) == {i \in 0..(StorageLen - 1) : predicate_holds(p, i, Storage[i + 1])}

\* C8: go_to_line_if on a loaded storage with a line satisfying the
\* predicate succeeds and sets the current line to the smallest such index,
\* whatever the current line was.
C8_GoToLineIfFirstMatch ==
    (last.name = "go_to_line_if" /\ HasContent /\ Matching(last.arg) # {}) =>
        /\ IsOk(last.ret)
        /\ current_line_index \in Matching(last.arg)
        /\ \A i \in Matching(last.arg) : current_line_index <= i

\* The line that was current satisfies the predicate too, and an earlier one
\* is the one gone to.
C8_Witness ==
    /\ last.name = "go_to_line_if" /\ HasContent /\ IsOk(last.ret)
    /\ last.before \in Matching(last.arg)
    /\ current_line_index < last.before

\* C9 as claimed: go_to_line_if fails with NoContent when no storage is
\* loaded or the loaded storage is empty, with NoLineWithPredicate when a
\* non-empty storage has no line satisfying the predicate, and a failure
\* leaves the current line as it was.
C9_AsClaimed ==
    last.name = "go_to_line_if" =>
        /\ (~HasContent \/ StorageLen = 0) => last.ret = Err(NoContent)
        /\ (HasContent /\ StorageLen >= 1 /\ Matching(last.arg) = {}) =>
               last.ret = Err(NoLineWithPredicate)
        /\ IsErr(last.ret) => current_line_index = last.before

\* C9 amended: go_to_line_if fails with NoContent only when no storage is
\* loaded; on a loaded storage without a line satisfying the predicate, the
\* empty storage included, it fails with NoLineWithPredicate; a failure
\* leaves the current line as it was.
C9_GoToLineIfErrors ==
    last.name = "go_to_line_if" =>
        /\ ~HasContent => last.ret = Err(NoContent)
        /\ (HasContent /\ Matching(last.arg) = {}) => last.ret = Err(NoLineWithPredicate)
        /\ last.ret = Err(NoContent) => ~HasContent
        /\ IsErr(last.ret) => current_line_index = last.before

\* go_to_line_if on a loaded empty storage, the current line left at 1.
C9_Witness ==
    /\ last.name = "go_to_line_if" /\ HasContent /\ StorageLen = 0
    /\ last.ret = Err(NoLineWithPredicate)
    /\ last.before = 1 /\ current_line_index = 1

\* C10: load(content) with the previous current line valid for the new
\* storage (below its length) leaves the current line as it was.
C10_LoadPreservesLine ==
    (last.name = "load" /\ last.before < StorageLen) =>
        current_line_index = last.before

\* A load of a two-line storage over another content, the current line 0.
C10_Witness ==
    /\ last.name = "load" /\ prev_op = "load" /\ StorageLen = 2
    /\ last.before = 0 /\ current_line_index = 0

\* C17: scroll_backwards succeeds iff the current line is above 0 and then
\* lowers it by exactly 1; scroll_forwards succeeds iff a storage is loaded
\* and current + 1 < len and then raises it by exactly 1; a failure leaves
\* the current line as it was; neither moves it by more than one line.
C17_ScrollByOne ==
    /\ last.name = "scroll_backwards" =>
           /\ IsOk(last.ret) <=> last.before > 0
           /\ IsOk(last.ret) => current_line_index = last.before - 1
           /\ ~IsOk(last.ret) => (IsErr(last.ret) /\ current_line_index = last.before)
    /\ last.name = "scroll_forwards" =>
           /\ IsOk(last.ret) <=> (HasContent /\ last.before + 1 < StorageLen)
           /\ IsOk(last.ret) => current_line_index = last.before + 1
           /\ ~IsOk(last.ret) => (IsErr(last.ret) /\ current_line_index = last.before)

\* scroll_forwards onto the last line of a loaded storage.
C17_Witness ==
    /\ last.name = "scroll_forwards" /\ IsOk(last.ret) /\ HasContent
    /\ current_line_index = last.before + 1 /\ current_line_index = StorageLen - 1

\* C18: scroll_to_end succeeds, and sets the current line to len - 1, iff a
\* non-empty storage is loaded and the current line is not len - 1; it fails
\* and changes nothing when the current line is len - 1 already, when the
\* loaded storage is empty and when no content is loaded.
C18_ScrollToEnd ==
    last.name = "scroll_to_end" =>
        LET moves == HasContent /\ StorageLen >= 1 /\ last.before # StorageLen - 1
        IN  /\ IsOk(last.ret) <=> moves
            /\ moves => current_line_index = StorageLen - 1
            /\ ~moves => (IsErr(last.ret) /\ current_line_index = last.before)

\* scroll_to_end from line 0 of a storage of two lines.
C18_Witness ==
    /\ last.name = "scroll_to_end" /\ IsOk(last.ret) /\ StorageLen = 2
    /\ last.before = 0 /\ current_line_index = 1

-----------------------------------------------------------------------------
(* Properties of one draw.  In a state reached by a draw, H and W are the  *)
(* height and width of the window it was given, and the rows of a line are *)
(* counted from the storage, apart from the render pass.                   *)

DrawCall == last.name = "draw" /\ last.ret = Unit /\ HasContent /\ StorageLen >= 1
H == last.arg[1]
W == last.arg[2]

\* the number of lines looked at on either side of the current line
R == Max(H, 20)
WindowStart == Max(0, current_line - R)
WindowEnd == Min(StorageLen, current_line + R)

\* the rows the line with index i takes in a window W columns wide
RowsOfLine(i) ==
    LET k == Len(get_content(Storage[i + 1]))
    IN  IF k = 0 THEN 1 ELSE (k + W - 1) \div W

\* the rows of the lines with indices in [lo, hi)
RECURSIVE RowsOfLines(_, _)
RowsOfLines(lo, hi) == IF lo >= hi THEN 0 ELSE RowsOfLine(lo) + RowsOfLines(lo + 1, hi)

RowsBefore == RowsOfLines(WindowStart, current_line)
RowsFrom == RowsOfLines(current_line, WindowEnd)

\* the row draw moved the cursor to before the render pass
StartRow == last.out.layout.required_start_pos
\* the first row of the current line
CurrentLineRow == StartRow + RowsBefore
\* what the render pass recorded of the line with index i
DrawnLine(i) == CHOOSE l \in {last.out.lines[k] : k \in 1..Len(last.out.lines)} : l.line_index = i

\* C11: after a draw of a non-empty storage to a window of height H >= 1,
\* the first row of the current line (start row + rows of the lines
\* before it in the window of lines) is one of the rows 0 .. H-1, and it is
\* the row the render pass starts the current line on.
C11_CurrentLineVisible ==
    (DrawCall /\ H >= 1) =>
        /\ CurrentLineRow \in 0..(H - 1)
        /\ DrawnLine(current_line).start_y = CurrentLineRow

\* a draw where the current line takes more rows than the window has, with
\* lines before it
C11_Witness ==
    /\ DrawCall /\ H >= 1 /\ current_line >= 1
    /\ RowsOfLine(current_line) > H
    /\ CurrentLineRow \in 0..(H - 1)

\* C12: after a draw, when the lines before the current line in the window
\* of lines take at least H/2 rows and the lines from the current line on
\* take at least H - H/2 rows, the first row of the current line is H/2
\* (rounded down), and the render pass starts the current line there.
C12_Centered ==
    (DrawCall /\ RowsBefore >= H \div 2 /\ RowsFrom >= H - H \div 2) =>
        /\ CurrentLineRow = H \div 2
        /\ DrawnLine(current_line).start_y = H \div 2

\* the long storage of one-row lines drawn to 20 rows from its middle line:
\* the current line is on row 10
C12_Witness ==
    /\ DrawCall /\ StorageLen = ExampleLen /\ current_line = ExampleLen \div 2
    /\ H = 20 /\ RowsBefore >= 10 /\ RowsFrom >= 10
    /\ CurrentLineRow = 10

\* the row after the last row of the render pass
EndRow == last.out.lines[Len(last.out.lines)].end_y

\* C13: after a draw, when the lines of the window of lines take at least H
\* rows together, the row after the last rendered row is at least H; and
\* when the current line is the last line of the storage, takes one row and
\* has at least H - 1 rows before it, it is on the last row H - 1 of the
\* window (H >= 1).
C13_NoBlankTrailingRows ==
    /\ (DrawCall /\ RowsBefore + RowsFrom >= H) =>
           /\ CurrentLineRow + RowsFrom >= H
           /\ EndRow = CurrentLineRow + RowsFrom
    /\ (DrawCall /\ H >= 1 /\ current_line = StorageLen - 1
           /\ RowsOfLine(current_line) = 1 /\ RowsBefore >= H - 1) =>
           /\ CurrentLineRow = H - 1
           /\ DrawnLine(current_line).start_y = H - 1

\* the long storage of one-row lines drawn to 20 rows from its last line:
\* the current line is on row 19 and the render pass ends on row 20
C13_Witness ==
    /\ DrawCall /\ StorageLen = ExampleLen /\ current_line = ExampleLen - 1
    /\ H = 20 /\ RowsBefore >= 19
    /\ CurrentLineRow = 19 /\ EndRow = 20

\* the indices of the lines the render pass went through, in its order
RenderedIndices == [k \in 1..Len(last.out.lines) |-> last.out.lines[k].line_index]

\* C19: after a draw to a window of height H, with the current line C valid
\* and a storage of N lines, the render pass went through the lines with
\* indices max(0, C - R) .. min(N, C + R) - 1 for R = max(H, 20), each once
\* and in ascending order, and through at most 2R lines.
C19_CandidateWindow ==
    DrawCall =>
        /\ RenderedIndices = [k \in 1..(WindowEnd - WindowStart) |-> WindowStart + k - 1]
        /\ Len(RenderedIndices) <= 2 * R

\* a draw to more than 20 rows from the middle of a storage that goes on
\* beyond both ends of the window of lines: 2R lines are rendered
C19_Witness ==
    /\ DrawCall /\ H > 20
    /\ current_line - R > 0 /\ current_line + R < StorageLen
    /\ Len(RenderedIndices) = 2 * R
    /\ RenderedIndices[1] = current_line - R

\* the calls a draw made on the decorator and the cursor, in order
Trace == last.out.trace
\* the decorate calls of a draw, in order
Decorates == last.out.decorates
\* the index of the line an event of the trace is about
EventLine(e) ==
    CASE e[1] = "write" -> e[2].line_index
      [] e[1] = "fill_and_wrap_line" -> e[2]
      [] e[1] = "decorate" -> e[2].line_to_decorate_index

IsDecorate(e) == e[1] = "decorate"

\* C20: in one draw the width demand is asked for once, first, over the
\* whole window of lines; every line of the window of lines then gets one
\* decorate call, in ascending order of index, right after the line has
\* been written and wrapped, with its own index, the current line's index
\* and rows s..e with 0 <= s <= e <= H; the rows of one line end at or
\* before those of the next line start, and a line wholly outside the
\* window gets no row.
C20_DecorationProtocol ==
    DrawCall =>
        /\ Trace[1] = <<"horizontal_space_demand",
                        [k \in 1..(WindowEnd - WindowStart) |-> WindowStart + k - 1]>>
        /\ \A i \in 2..Len(Trace) :
              /\ Trace[i][1] \in {"write", "fill_and_wrap_line", "decorate"}
              /\ Trace[i][1] = "write" =>
                    /\ i < Len(Trace)
                    /\ Trace[i + 1][1] \in {"write", "fill_and_wrap_line"}
                    /\ EventLine(Trace[i + 1]) = EventLine(Trace[i])
              /\ Trace[i][1] = "fill_and_wrap_line" =>
                    /\ i < Len(Trace)
                    /\ Trace[i + 1][1] = "decorate"
                    /\ EventLine(Trace[i + 1]) = EventLine(Trace[i])
                    /\ Trace[i - 1][1] = "write"
                    /\ EventLine(Trace[i - 1]) = EventLine(Trace[i])
              /\ Trace[i][1] = "decorate" =>
                    /\ Trace[i - 1][1] = "fill_and_wrap_line"
                    /\ EventLine(Trace[i - 1]) = EventLine(Trace[i])
        /\ SelectSeq(Trace, IsDecorate)
              = [k \in 1..Len(Decorates) |-> <<"decorate", Decorates[k]>>]
        /\ Len(Decorates) = WindowEnd - WindowStart
        /\ \A k \in 1..Len(Decorates) :
              /\ Decorates[k].line_to_decorate_index = WindowStart + k - 1
              /\ Decorates[k].active_line_index = current_line
              /\ 0 <= Decorates[k].rows[1]
              /\ Decorates[k].rows[1] <= Decorates[k].rows[2]
              /\ Decorates[k].rows[2] <= H
              /\ k < Len(Decorates) => Decorates[k].rows[2] <= Decorates[k + 1].rows[1]
              /\ (last.out.lines[k].end_y <= 0 \/ last.out.lines[k].start_y >= H)
                    => Decorates[k].rows[1] = Decorates[k].rows[2]

\* a draw of several lines to a window of at least one row in which a line
\* lies above the window and gets no row, and another line gets rows
C20_Witness ==
    /\ DrawCall /\ H >= 1 /\ Len(Decorates) >= 2
    /\ \E k \in 1..Len(Decorates) :
          /\ last.out.lines[k].end_y <= 0
          /\ Decorates[k].rows = <<0, 0>>
    /\ \E k \in 1..Len(Decorates) : Decorates[k].rows[1] < Decorates[k].rows[2]
    /\ Trace[Len(Trace)][1] = "decorate"

\* the highlighting of the line with index i: its (offset, style) pairs
Overlay(i) == get_info_for_line(Unwrap(content).highlight_info, i)
\* the content of the line with index i
LineContent(i) == get_content(Storage[i + 1])
\* the writes of the line with index i, in the order they were made
WritesOf(i) == SelectSeq(last.out.writes, LAMBDA w : w.line_index = i)
\* the style of the active line: inverted and bold
ActiveLineStyle == [StyleModifier_new EXCEPT !.invert = "Toggle", !.bold = "Yes"]
\* the base style of the line with index i
BaseOf(i) == IF i = current_line THEN ActiveLineStyle ELSE StyleModifier_new
\* a highlight style and a base style combined, in either order
Combined(style, base) == {on_top_of(style, base), on_top_of(base, style)}

\* C14: after a draw, for every rendered line whose highlighting is
\* (o_1, s_1), ..., (o_n, s_n) with o_1 = 0, the bytes o_i .. o_(i+1) - 1
\* (for the last pair, to the end of the line) were written in one write
\* with the cursor's style s_i combined with the line's base style, and
\* the writes of the line, in order, make up the line: every byte once.
C14_HighlightApplied ==
    DrawCall =>
        \A i \in WindowStart..(WindowEnd - 1) :
            (Overlay(i) /= <<>> /\ Overlay(i)[1][1] = 0) =>
                LET n == Len(Overlay(i))
                    ws == WritesOf(i)
                IN  /\ Len(ws) = n + 1
                    /\ ws[1].text = <<>>
                    /\ \A j \in 1..n :
                          /\ ws[j + 1].from = Overlay(i)[j][1]
                          /\ ws[j + 1].to = IF j < n THEN Overlay(i)[j + 1][1]
                                            ELSE Len(LineContent(i))
                          /\ ws[j + 1].text
                                = SubSeq(LineContent(i), ws[j + 1].from + 1, ws[j + 1].to)
                          /\ ws[j + 1].style \in Combined(Overlay(i)[j][2], BaseOf(i))
                    /\ Flatten([j \in 1..Len(ws) |-> ws[j].text]) = LineContent(i)

\* a draw of a highlighted line of two segments, both written, each with
\* its own style
C14_Witness ==
    /\ DrawCall
    /\ \E i \in WindowStart..(WindowEnd - 1) :
          /\ Len(Overlay(i)) = 2 /\ Overlay(i)[1][1] = 0 /\ Overlay(i)[2][1] = 1
          /\ Len(LineContent(i)) = 2
          /\ Len(WritesOf(i)) = 3
          /\ WritesOf(i)[2].text = <<"a">> /\ WritesOf(i)[3].text = <<"a">>
          /\ WritesOf(i)[2].style.fg_color = Some("white")
          /\ WritesOf(i)[3].style.fg_color = Some("red")

\* C15: after a draw, every highlighted segment of the current line (its
\* highlighting starting at offset 0) was written with the active-line
\* style layered on top of the segment's highlight style: what the
\* active-line style sets (invert, bold) wins, the colours of the highlight
\* are kept.
C15_ActiveOnTopOfHighlight ==
    (DrawCall /\ Overlay(current_line) /= <<>> /\ Overlay(current_line)[1][1] = 0) =>
        \A j \in 1..Len(Overlay(current_line)) :
            WritesOf(current_line)[j + 1].style
                = on_top_of(ActiveLineStyle, Overlay(current_line)[j][2])

\* a write that put at least one byte of text on the window
TextWrites == {k \in 1..Len(last.out.writes) : last.out.writes[k].text /= <<>>}

\* C16: after a draw, the active-line style (invert) is part of the
\* cursor's style of a write of text exactly when the text is of the
\* current line, whatever the highlighting.
C16_ActiveStyleOnCurrentLineOnly ==
    DrawCall =>
        \A k \in TextWrites :
            (last.out.writes[k].style.invert = "Toggle")
                <=> (last.out.writes[k].line_index = current_line)

\* C21: after a draw, the row the render pass starts on is never below row
\* 0 (it is at most 0), the first line of the render pass starts on it, and
\* when the current line is line 0 the start row is 0 and the current line
\* is on row 0.
C21_TopPinned ==
    DrawCall =>
        /\ StartRow <= 0
        /\ last.out.lines[1].start_y = StartRow
        /\ current_line = 0 =>
              /\ StartRow = 0
              /\ CurrentLineRow = 0
              /\ DrawnLine(0).start_y = 0

\* a draw from line 0 of a storage of several lines to a window of several
\* rows, where the centered row is below row 0
C21_Witness ==
    /\ DrawCall /\ current_line = 0 /\ StorageLen >= 2 /\ H >= 2
    /\ StartRow = 0 /\ DrawnLine(0).start_y = 0

-----------------------------------------------------------------------------
(* Frame properties: what a call leaves alone. *)

\* the four operations of Scrollable
ScrollNames == {"scroll_backwards", "scroll_forwards", "scroll_to_beginning", "scroll_to_end"}

\* C23: every call of scroll_backwards, scroll_forwards, scroll_to_beginning
\* or scroll_to_end returns Ok exactly when it changed the current line
\* index, and a call that returns Err leaves content and current line as
\* they were, in every reachable state.
C23_ScrollOkIffMoved ==
    [][last'.name \in ScrollNames =>
          /\ IsOk(last'.ret) <=> (current_line' /= current_line)
          /\ IsErr(last'.ret) => (content' = content /\ current_line' = current_line)
          /\ IsOk(last'.ret) \/ IsErr(last'.ret)]_vars

\* a scroll call that failed on a loaded, empty storage and one cannot tell
\* from the state that it was made
C23_Witness ==
    /\ last.name \in ScrollNames /\ IsErr(last.ret)
    /\ HasContent /\ StorageLen = 0
    /\ current_line = last.before

\* C24: a call of clear_content sets the content to None and changes
\* nothing else: current_line_index() is what it was and current_line() is
\* None; a load of a storage in which the current line index is valid, as
\* after clear_content, keeps that index; and every step that changes the
\* content is a load or a clear_content.  (The replacement of the content
\* through content_mut is such a step and is neither.)
C24_ClearContentFrame ==
    [][/\ last'.name = "clear_content" =>
             /\ content' = None
             /\ current_line' = current_line
             /\ Pager_current_line(content', current_line') = None
       /\ (last'.name = "load" /\ current_line < Len(last'.arg)) =>
             /\ current_line' = current_line
             /\ Pager_current_line(content', current_line') = Some(last'.arg[current_line + 1])
       /\ content' /= content => last'.name \in {"load", "clear_content"}]_vars

\* C22: a draw of a loaded content to a window of height 0 or width 0 does
\* nothing: it asks for no write of line text and makes no decorate call.
\* (The windows drawn to here are at least one column wide; the windows of
\* height 0 are the zero-sized ones.)
C22_ZeroSizedNoOp ==
    (last.name = "draw" /\ last.ret = Unit /\ HasContent /\ (H = 0 \/ W = 0)) =>
        /\ TextWrites = {}
        /\ Decorates = <<>>
====
